---- MODULE Spec2Model ----
(***************************************************************************)
(* Model of the PII flagger: pii_detector.py builds the selection          *)
(* predicate and the Painless mutation script from one configuration,      *)
(* search_to_html.py replays the matching locally to highlight a document. *)
(*                                                                         *)
(* Text is a sequence of one-character strings over Alphabet.  A           *)
(* patternRegex is a sequence of atoms, each a character class that is     *)
(* mandatory or optional ("?"); matching follows the backtracking priority *)
(* of the regex engines (greedy "?", lazy gap, alternatives in order).     *)
(* Positions are 0-based offsets as in the source: the character at        *)
(* offset i is text[i+1].                                                  *)
(***************************************************************************)
EXTENDS Integers, Sequences, FiniteSets, TLC

(***************************************************************************)
(* Bounds                                                                  *)
(***************************************************************************)
MaxLen == 3

(***************************************************************************)
(* Characters                                                              *)
(***************************************************************************)
Alphabet == {"s", "1", "2", " "}

Digits == {"0", "1", "2", "3", "4", "5", "6", "7", "8", "9"}

\* \w of the regex engines, restricted to the characters that can occur
WordChars == Digits \cup {"s", "_"}

\* the class [\s\-] used between digit groups
SepChars == {" ", "-"}

InClass(c, cls) ==
    CASE cls = "digit" -> c \in Digits
      [] cls = "sep"   -> c \in SepChars
      [] OTHER         -> FALSE

Texts == UNION {[1..n -> Alphabet] : n \in 0..MaxLen}

NoMatch == 0 - 1

Min(a, b) == IF a <= b THEN a ELSE b

Slice(text, from, to) == SubSeq(text, from + 1, to)

(***************************************************************************)
(* patternRegex values: [0-9] and [0-9][\s\-]?[0-9]                         *)
(***************************************************************************)
Atom(cls, opt) == [cls |-> cls, opt |-> opt]

PatDigit == <<Atom("digit", FALSE)>>

PatPair == <<Atom("digit", FALSE), Atom("sep", TRUE), Atom("digit", FALSE)>>

Patterns == {PatDigit, PatPair}

\* End offset of the match of atoms k.. of pat that starts at offset i, as
\* the backtracking engine finds it (an optional atom is tried taken first),
\* NoMatch when there is none.
RECURSIVE MatchAtoms(_, _, _, _)
MatchAtoms(pat, text, k, i) ==
    IF k > Len(pat) THEN i
    ELSE LET a    == pat[k]
             take == IF i < Len(text) /\ InClass(text[i + 1], a.cls)
                     THEN MatchAtoms(pat, text, k + 1, i + 1)
                     ELSE NoMatch
         IN  IF a.opt /\ take = NoMatch
             THEN MatchAtoms(pat, text, k + 1, i)
             ELSE take

PatEnd(pat, text, i) == MatchAtoms(pat, text, 1, i)

\* re.finditer(pattern_regex, text): leftmost non-overlapping matches
RECURSIVE finditer_pattern(_, _, _)
finditer_pattern(pat, text, from) ==
    IF from > Len(text) THEN <<>>
    ELSE LET e == PatEnd(pat, text, from)
         IN  IF e = NoMatch THEN finditer_pattern(pat, text, from + 1)
             ELSE IF e = from
                  THEN <<<<from, e>>>> \o finditer_pattern(pat, text, from + 1)
                  ELSE <<<<from, e>>>> \o finditer_pattern(pat, text, e)

(***************************************************************************)
(* contextWords values: the word "s" and the phrase "s 1"                  *)
(***************************************************************************)
WordS == <<"s">>

PhraseS1 == <<"s", " ", "1">>

ContextWordLists == {<<>>, <<WordS>>, <<WordS, PhraseS1>>}

\* \b at offset i: exactly one of the neighbouring characters is a word
\* character (outside the text counts as a non-word character)
WordBoundary(text, i) ==
    LET before == i >= 1 /\ text[i] \in WordChars
        after  == i < Len(text) /\ text[i + 1] \in WordChars
    IN  before # after

\* the literal characters of word are at offset i (re.escape(word))
LiteralAt(word, text, i) ==
    /\ i + Len(word) <= Len(text)
    /\ \A j \in 1..Len(word) : text[i + j] = word[j]

\* re.finditer(rf'\b{escaped_word}\b', text): leftmost non-overlapping
RECURSIVE finditer_word(_, _, _)
finditer_word(word, text, from) ==
    IF from > Len(text) THEN <<>>
    ELSE IF /\ LiteralAt(word, text, from)
            /\ WordBoundary(text, from)
            /\ WordBoundary(text, from + Len(word))
         THEN <<<<from, from + Len(word)>>>>
              \o finditer_word(word, text,
                               IF Len(word) = 0 THEN from + 1 ELSE from + Len(word))
         ELSE finditer_word(word, text, from + 1)

\* context_matches: the occurrences of each word, in the order of the list
RECURSIVE context_matches_of(_, _, _)
context_matches_of(context_words, text, k) ==
    IF k > Len(context_words) THEN <<>>
    ELSE finditer_word(context_words[k], text, 0)
         \o context_matches_of(context_words, text, k + 1)

(***************************************************************************)
(* The composite regex of build_checksum_regex and its search              *)
(***************************************************************************)
\* the gap quantifier {0,50} written into the composite regex
GapLimit == 50

\* a character of a context word, interpolated unescaped, as a regex atom
RegexCharMatches(rc, c) == IF rc = "." THEN TRUE ELSE rc = c

RegexWordAt(word, text, i) ==
    /\ i + Len(word) <= Len(text)
    /\ \A j \in 1..Len(word) : RegexCharMatches(word[j], text[i + j])

build_checksum_regex(pattern_regex, context_words) ==
    [context |-> context_words,
     gap     |-> GapLimit,
     pattern |-> pattern_regex]

NoFind == [found |-> FALSE, start |-> 0, g1end |-> 0, g2start |-> 0, g2end |-> 0]

\* offsets q in e..e+gap where the pattern group matches, for a context group
\* ending at e; the lazy gap takes the smallest
GapStarts(rx, text, e) ==
    {q \in e..Min(Len(text), e + rx.gap) : PatEnd(rx.pattern, text, q) # NoMatch}

MatchFromGroup1(rx, text, i, e) ==
    LET q == CHOOSE x \in GapStarts(rx, text, e) :
                 \A y \in GapStarts(rx, text, e) : x <= y
    IN  [found |-> TRUE, start |-> i, g1end |-> e,
         g2start |-> q, g2end |-> PatEnd(rx.pattern, text, q)]

\* the match of the composite regex that starts at offset i, if any:
\* with no context words group 1 is a greedy ".*" (the alphabet has no line
\* terminator), otherwise the first alternative, in order, that leads to a match
MatchAt(rx, text, i) ==
    IF rx.context = <<>>
    THEN LET ends == {e \in i..Len(text) : GapStarts(rx, text, e) # {}}
         IN  IF ends = {} THEN NoFind
             ELSE MatchFromGroup1(rx, text, i,
                      CHOOSE e \in ends : \A y \in ends : y <= e)
    ELSE LET alts == {k \in 1..Len(rx.context) :
                        /\ RegexWordAt(rx.context[k], text, i)
                        /\ GapStarts(rx, text, i + Len(rx.context[k])) # {}}
         IN  IF alts = {} THEN NoFind
             ELSE LET k == CHOOSE x \in alts : \A y \in alts : x <= y
                  IN  MatchFromGroup1(rx, text, i, i + Len(rx.context[k]))

\* Matcher.find() resuming at offset from: the leftmost match
RECURSIVE find(_, _, _)
find(rx, text, from) ==
    IF from > Len(text) THEN NoFind
    ELSE LET m == MatchAt(rx, text, from)
         IN  IF m.found THEN m ELSE find(rx, text, from + 1)

\* where the next Matcher.find() resumes after match m
NextFrom(m) == IF m.g2end = m.start THEN m.g2end + 1 ELSE m.g2end

(***************************************************************************)
(* Configuration (the YAML file after load_config and main's validation)   *)
(***************************************************************************)
\* fieldName: main only requires the key to be present, so the empty string
\* (like every other falsy YAML value) is a configuration main accepts
FieldNames == {"", "HasTFN"}

\* the files present under checksums/
ChecksumLibrary == {"tfn"}

\* checksum: absent (""), a library algorithm, or a name with no file
ChecksumNames == {"", "tfn", "nofile"}

Configs ==
    [fieldName    : FieldNames,
     patternRegex : Patterns,
     contextWords : ContextWordLists,
     checksum     : ChecksumNames]

(***************************************************************************)
(* Documents of the index                                                  *)
(***************************************************************************)
\* a value stored under a bucket key: a boolean flag or an extracted string
BoolVal(b) == [t |-> "bool", b |-> b, s |-> <<>>]

StrVal(str) == [t |-> "str", b |-> FALSE, s |-> str]

\* a namespace bucket (ctx._source.PII, ctx._source.named_entities): null or
\* a map from keys to values
NullBucket == [isNull |-> TRUE, map |-> <<>>]

Bucket(m) == [isNull |-> FALSE, map |-> m]

Put(bucket, key, val) ==
    [bucket EXCEPT !.map = [k \in (DOMAIN bucket.map) \cup {key} |->
                               IF k = key THEN val ELSE bucket.map[k]]]

BucketOf(doc, prefix) == IF prefix = "named_entities" THEN doc.named_entities ELSE doc.PII

\* the document has a value at <prefix>.<key>
Carries(doc, prefix, key) ==
    /\ ~BucketOf(doc, prefix).isNull
    /\ key \in DOMAIN BucketOf(doc, prefix).map

\* a sibling key that some other run has written into a bucket
Sibling == "HasABN"

SiblingBucket == Bucket([k \in {Sibling} |-> BoolVal(TRUE)])

\* documents as they are before any run of this configuration: with or
\* without a document_text, the buckets absent or written by another run
InitDocs ==
    {[hasText |-> TRUE, document_text |-> t, filename |-> "f",
      PII |-> b, named_entities |-> b] : t \in Texts, b \in {NullBucket, SiblingBucket}}
    \cup
    {[hasText |-> FALSE, document_text |-> <<>>, filename |-> "f",
      PII |-> NullBucket, named_entities |-> NullBucket]}

(***************************************************************************)
(* The selection predicate                                                 *)
(***************************************************************************)
ExistsClause(path) == [kind |-> "exists", field |-> path, words |-> <<>>, regexp |-> <<>>]

\* query_string over the context words: a phrase with a space is quoted
QueryStringClause(context_words) ==
    [kind |-> "query_string", field |-> <<"document_text">>,
     words |-> [k \in 1..Len(context_words) |->
                   [quoted |-> \E j \in 1..Len(context_words[k]) : context_words[k][j] = " ",
                    word   |-> context_words[k]]],
     regexp |-> <<>>]

\* regexp on <field>.keyword with the value .*<pattern_regex>.*
RegexpClause(field, pattern_regex) ==
    [kind |-> "regexp", field |-> <<field, "keyword">>, words |-> <<>>,
     regexp |-> pattern_regex]

\* lines 61-91: document_text must exist, the context words when there are
\* any, and the pattern regexp unless the query is for reverse mode
must_clauses_of(config, reverse) ==
    <<ExistsClause(<<"document_text">>)>>
    \o (IF config.contextWords # <<>>
        THEN <<QueryStringClause(config.contextWords)>> ELSE <<>>)
    \o (IF ~reverse
        THEN <<RegexpClause("document_text", config.patternRegex)>> ELSE <<>>)

\* the must_not clauses of build_complete_query with the reverse-mode pattern
\* exclusion of lines 105-112 left out
must_not_clauses_NoReverseExclusion(config, field_name, reverse, search_mode, ner_mode) ==
    IF field_name # "" /\ ~search_mode
    THEN <<ExistsClause(<<IF ner_mode THEN "named_entities" ELSE "PII", field_name>>)>>
    ELSE <<>>

\* lines 93-112: the target field must be absent when a (truthy) field name is
\* given outside search mode; in reverse mode the pattern must not match
must_not_clauses_of(config, field_name, reverse, search_mode, ner_mode) ==
    (IF field_name # "" /\ ~search_mode
     THEN <<ExistsClause(<<IF ner_mode THEN "named_entities" ELSE "PII", field_name>>)>>
     ELSE <<>>)
    \o (IF reverse
        THEN <<RegexpClause("document_text", config.patternRegex)>> ELSE <<>>)

build_complete_query(config, field_name, reverse, search_mode, ner_mode) ==
    [must     |-> must_clauses_of(config, reverse),
     must_not |-> must_not_clauses_of(config, field_name, reverse, search_mode, ner_mode)]

\* the tokens the index holds for an analysed text: maximal runs of word
\* characters, in order
RECURSIVE Tokens(_)
Tokens(text) ==
    IF text = <<>> THEN <<>>
    ELSE IF text[1] \notin WordChars THEN Tokens(Tail(text))
    ELSE LET n == CHOOSE m \in 1..Len(text) :
                      /\ \A j \in 1..m : text[j] \in WordChars
                      /\ (m = Len(text) \/ text[m + 1] \notin WordChars)
         IN  <<SubSeq(text, 1, n)>> \o Tokens(SubSeq(text, n + 1, Len(text)))

\* a context word or quoted phrase of the query_string matches the text when
\* its tokens occur as consecutive tokens of the text
TermMatches(word, text) ==
    LET wt == Tokens(word)
        tt == Tokens(text)
    IN  /\ wt # <<>>
        /\ \E i \in 0..(Len(tt) - Len(wt)) : \A j \in 1..Len(wt) : tt[i + j] = wt[j]

\* the keyword value matches .*<pattern>.* : the pattern occurs somewhere
RegexpMatches(pattern_regex, text) ==
    \E i \in 0..Len(text) : PatEnd(pattern_regex, text, i) # NoMatch

ClauseHolds(c, doc) ==
    CASE c.kind = "exists" ->
            IF c.field = <<"document_text">> THEN doc.hasText
            ELSE Carries(doc, c.field[1], c.field[2])
      [] c.kind = "query_string" ->
            /\ doc.hasText
            /\ \E k \in 1..Len(c.words) : TermMatches(c.words[k].word, doc.document_text)
      [] c.kind = "regexp" ->
            /\ doc.hasText
            /\ RegexpMatches(c.regexp, doc.document_text)

\* the bool query selects the document
Selects(query, doc) ==
    /\ \A k \in 1..Len(query.must) : ClauseHolds(query.must[k], doc)
    /\ \A k \in 1..Len(query.must_not) : ~ClauseHolds(query.must_not[k], doc)

(***************************************************************************)
(* Checksum algorithms and the mutation script                             *)
(***************************************************************************)
\* load_checksum_algorithm: the fragment of a library algorithm, or the
\* FileNotFoundError raised when checksums/<name>.painless does not exist
load_checksum_algorithm(algorithm_name) ==
    IF algorithm_name \in ChecksumLibrary
    THEN [raised |-> FALSE, fragment |-> algorithm_name]
    ELSE [raised |-> TRUE, fragment |-> ""]

DigitValue(c) ==
    CASE c = "0" -> 0 [] c = "1" -> 1 [] c = "2" -> 2 [] c = "3" -> 3 [] c = "4" -> 4
      [] c = "5" -> 5 [] c = "6" -> 6 [] c = "7" -> 7 [] c = "8" -> 8 [] c = "9" -> 9

RECURSIVE WeightedSum(_, _)
WeightedSum(digits, k) ==
    IF k > Len(digits) THEN 0
    ELSE k * DigitValue(digits[k]) + WeightedSum(digits, k + 1)

\* the check-digit rule of the library algorithm
ChecksumModulus == 2

\* what a checksum fragment assigns to passChecksum for the digit string
\* cleanMatch
passChecksum(fragment, cleanMatch) ==
    /\ cleanMatch # <<>>
    /\ WeightedSum(cleanMatch, 1) % ChecksumModulus = 0

\* /[^0-9]/.matcher(rawMatch).replaceAll('')
RECURSIVE cleanMatch(_)
cleanMatch(rawMatch) ==
    IF rawMatch = <<>> THEN <<>>
    ELSE (IF rawMatch[1] \in Digits THEN <<rawMatch[1]>> ELSE <<>>)
         \o cleanMatch(Tail(rawMatch))

NoRegex == [context |-> <<>>, gap |-> 0, pattern |-> <<>>]

Script(kind, field_prefix, field_name, regex_pattern, checksum_script) ==
    [kind |-> kind, field_prefix |-> field_prefix, field_name |-> field_name,
     regex_pattern |-> regex_pattern, checksum_script |-> checksum_script]

NoPayload == [raised |-> FALSE,
              script |-> Script("none", "", "", NoRegex, ""),
              query  |-> [must |-> <<>>, must_not |-> <<>>]]

Raised == [NoPayload EXCEPT !.raised = TRUE]

FieldPrefix(ner_mode) == IF ner_mode THEN "named_entities" ELSE "PII"

\* lines 237-246
reverse_payload(config, ner_mode) ==
    [raised |-> FALSE,
     script |-> Script("reverse", FieldPrefix(ner_mode), config.fieldName, NoRegex, ""),
     query  |-> build_complete_query(config, config.fieldName, TRUE, FALSE, ner_mode)]

\* lines 247-266
checksum_payload(config, ner_mode) ==
    LET loaded == load_checksum_algorithm(config.checksum)
    IN  IF loaded.raised THEN Raised
        ELSE [raised |-> FALSE,
              script |-> Script(IF ner_mode THEN "checksum_ner" ELSE "checksum_pii",
                                FieldPrefix(ner_mode), config.fieldName,
                                build_checksum_regex(config.patternRegex,
                                                     config.contextWords),
                                loaded.fragment),
              query  |-> build_complete_query(config, config.fieldName, FALSE, FALSE,
                                              ner_mode)]

\* lines 267-285
plain_payload(config, ner_mode) ==
    [raised |-> FALSE,
     script |-> Script(IF ner_mode THEN "plain_ner" ELSE "plain_pii",
                       FieldPrefix(ner_mode), config.fieldName,
                       build_checksum_regex(config.patternRegex, config.contextWords),
                       ""),
     query  |-> build_complete_query(config, config.fieldName, FALSE, FALSE, ner_mode)]

\* build_update_query with the checksum algorithm loaded before the direction
\* is looked at
build_update_query_LoadsFirst(config, reverse, ner_mode) ==
    IF config.checksum # "" /\ load_checksum_algorithm(config.checksum).raised
    THEN Raised
    ELSE IF reverse THEN reverse_payload(config, ner_mode)
    ELSE IF config.checksum # "" THEN checksum_payload(config, ner_mode)
    ELSE plain_payload(config, ner_mode)

\* the checksum value is tested for truth, so an empty name means no checksum
build_update_query(config, reverse, ner_mode) ==
    IF reverse THEN reverse_payload(config, ner_mode)
    ELSE IF config.checksum # "" THEN checksum_payload(config, ner_mode)
    ELSE plain_payload(config, ner_mode)

\* while (matcher.find()) { rawMatch = group(2); cleanMatch = digits of it;
\* <checksum fragment>; if (passChecksum == true) { firstMatch = rawMatch; break; } }
RECURSIVE ChecksumLoop(_, _, _)
ChecksumLoop(script, text, from) ==
    LET m == find(script.regex_pattern, text, from)
    IN  IF ~m.found THEN [passChecksum |-> FALSE, firstMatch |-> <<>>, found |-> FALSE]
        ELSE LET rawMatch == Slice(text, m.g2start, m.g2end)
             IN  IF passChecksum(script.checksum_script, cleanMatch(rawMatch))
                 THEN [passChecksum |-> TRUE, firstMatch |-> rawMatch, found |-> TRUE]
                 ELSE ChecksumLoop(script, text, NextFrom(m))

\* the bucket is replaced by a new HashMap whether or not it was null
EnsureBucket_AlwaysNew(doc, prefix) ==
    IF prefix = "named_entities"
    THEN [doc EXCEPT !.named_entities = Bucket(<<>>)]
    ELSE [doc EXCEPT !.PII = Bucket(<<>>)]

\* if (ctx._source.<prefix> == null) { ctx._source.<prefix> = new HashMap(); }
EnsureBucket(doc, prefix) ==
    IF BucketOf(doc, prefix).isNull
    THEN IF prefix = "named_entities"
         THEN [doc EXCEPT !.named_entities = Bucket(<<>>)]
         ELSE [doc EXCEPT !.PII = Bucket(<<>>)]
    ELSE doc

\* ctx._source.<prefix>.put('<field_name>', val)
PutField(doc, prefix, field_name, val) ==
    IF prefix = "named_entities"
    THEN [doc EXCEPT !.named_entities = Put(@, field_name, val)]
    ELSE [doc EXCEPT !.PII = Put(@, field_name, val)]

\* line 242
run_reverse(script, doc) ==
    PutField(EnsureBucket(doc, script.field_prefix), script.field_prefix,
             script.field_name, BoolVal(FALSE))

\* line 255
run_checksum_ner(script, doc) ==
    LET r == ChecksumLoop(script, doc.document_text, 0)
    IN  IF r.found
        THEN PutField(EnsureBucket(doc, script.field_prefix), script.field_prefix,
                      script.field_name, StrVal(r.firstMatch))
        ELSE EnsureBucket(doc, script.field_prefix)

\* line 258
run_checksum_pii(script, doc) ==
    LET r == ChecksumLoop(script, doc.document_text, 0)
    IN  PutField(EnsureBucket(doc, script.field_prefix), script.field_prefix,
                 script.field_name, BoolVal(r.passChecksum))

\* the NER script without the firstMatch != null test: the empty extraction
\* is put into the bucket
run_plain_ner_PutsUnmatched(script, doc) ==
    LET m == find(script.regex_pattern, doc.document_text, 0)
    IN  PutField(EnsureBucket(doc, script.field_prefix), script.field_prefix,
                 script.field_name,
                 StrVal(IF m.found THEN Slice(doc.document_text, m.g2start, m.g2end)
                        ELSE <<>>))

\* line 274
run_plain_ner(script, doc) ==
    LET m == find(script.regex_pattern, doc.document_text, 0)
    IN  IF m.found
        THEN PutField(EnsureBucket(doc, script.field_prefix), script.field_prefix,
                      script.field_name,
                      StrVal(Slice(doc.document_text, m.g2start, m.g2end)))
        ELSE EnsureBucket(doc, script.field_prefix)

\* line 277
run_plain_pii(script, doc) ==
    LET m == find(script.regex_pattern, doc.document_text, 0)
    IN  PutField(EnsureBucket(doc, script.field_prefix), script.field_prefix,
                 script.field_name, BoolVal(m.found))

\* the document after the Painless script has run on it
RunScript(script, doc) ==
    CASE script.kind = "reverse"      -> run_reverse(script, doc)
      [] script.kind = "checksum_ner" -> run_checksum_ner(script, doc)
      [] script.kind = "checksum_pii" -> run_checksum_pii(script, doc)
      [] script.kind = "plain_ner"    -> run_plain_ner(script, doc)
      [] script.kind = "plain_pii"    -> run_plain_pii(script, doc)
      [] OTHER                        -> doc

(***************************************************************************)
(* search_to_html.py: highlight_document_text_html                         *)
(***************************************************************************)
\* html.escape of one character
EscapeChar(c) ==
    CASE c = "&"  -> <<"&", "a", "m", "p", ";">>
      [] c = "<"  -> <<"&", "l", "t", ";">>
      [] c = ">"  -> <<"&", "g", "t", ";">>
      [] c = "\"" -> <<"&", "q", "u", "o", "t", ";">>
      [] c = "'"  -> <<"&", "#", "x", "2", "7", ";">>
      [] OTHER    -> <<c>>

RECURSIVE html_escape(_)
html_escape(str) ==
    IF str = <<>> THEN <<>> ELSE EscapeChar(str[1]) \o html_escape(Tail(str))

Range(start, end, type, text) ==
    [start |-> start, end |-> end, type |-> type, matched_text |-> Slice(text, start, end)]

\* lines 63-73: the context occurrence [start, end) is near when some pattern
\* match begins after the occurrence begins, at a distance pattern_start - end
\* of at most proximity_chars
is_near(start, end, pattern_matches, proximity_chars) ==
    \E k \in 1..Len(pattern_matches) :
        /\ start < pattern_matches[k][1]
        /\ pattern_matches[k][1] - end <= proximity_chars

\* highlighted_ranges before sorting: the pattern matches, then the context
\* matches classified near or far
highlighted_ranges_of(text, pattern_matches, context_matches, proximity_chars) ==
    [k \in 1..Len(pattern_matches) |->
        Range(pattern_matches[k][1], pattern_matches[k][2], "pattern", text)]
    \o
    [k \in 1..Len(context_matches) |->
        Range(context_matches[k][1], context_matches[k][2],
              IF is_near(context_matches[k][1], context_matches[k][2],
                         pattern_matches, proximity_chars)
              THEN "near" ELSE "far",
              text)]

Before77_ShorterFirst(a, b) == a.start < b.start \/ (a.start = b.start /\ a.end < b.end)

\* sort key (start, -end) of line 77, and key start of line 97
Before77(a, b) == a.start < b.start \/ (a.start = b.start /\ a.end > b.end)

Before97(a, b) == a.start < b.start

\* list.sort is stable: x goes after every element that is not after it
InsertSorted(sorted, x, useEnd) ==
    LET n == Cardinality({k \in 1..Len(sorted) :
                 ~(IF useEnd THEN Before77(x, sorted[k]) ELSE Before97(x, sorted[k]))})
    IN  SubSeq(sorted, 1, n) \o <<x>> \o SubSeq(sorted, n + 1, Len(sorted))

RECURSIVE SortRanges(_, _, _)
SortRanges(ranges, k, useEnd) ==
    IF k = 0 THEN <<>>
    ELSE InsertSorted(SortRanges(ranges, k - 1, useEnd), ranges[k], useEnd)

\* line 89: not (end <= s or start >= e)
Overlap(a, b) == ~(a.end <= b.start \/ a.start >= b.end)

\* lines 84-94: keep a range only if it overlaps no range kept before it
RECURSIVE unique_ranges_of(_, _)
unique_ranges_of(ranges, k) ==
    IF k = 0 THEN <<>>
    ELSE LET kept == unique_ranges_of(ranges, k - 1)
         IN  IF \E j \in 1..Len(kept) : Overlap(ranges[k], kept[j])
             THEN kept
             ELSE Append(kept, ranges[k])

Segment(kind, str) == [kind |-> kind, text |-> html_escape(str)]

\* lines 100-114: the segments emitted for ranges k.., with last_pos
RECURSIVE build_segments(_, _, _, _)
build_segments(text, ranges, k, last_pos) ==
    IF k > Len(ranges)
    THEN IF last_pos < Len(text)
         THEN <<Segment("text", Slice(text, last_pos, Len(text)))>>
         ELSE <<>>
    ELSE LET r == ranges[k]
         IN  (IF r.start > last_pos
              THEN <<Segment("text", Slice(text, last_pos, r.start))>>
              ELSE <<>>)
             \o <<Segment(r.type, r.matched_text)>>
             \o build_segments(text, ranges, k + 1, r.end)

\* re.compile accepts the pattern: every atom is a well-formed class
compiles(pattern_regex) ==
    \A k \in 1..Len(pattern_regex) : pattern_regex[k].cls \in {"digit", "sep"}

falls_back_OnEmptyOnly(text, pattern_regex) == text = <<>> \/ pattern_regex = <<>>

\* lines 36-45: an empty text or pattern, or re.error from the pattern
falls_back(text, pattern_regex) ==
    text = <<>> \/ pattern_regex = <<>> \/ ~compiles(pattern_regex)

highlight_document_text_html(text, pattern_regex, context_words, proximity_chars) ==
    IF falls_back(text, pattern_regex)
    THEN [highlighted_ranges |-> <<>>, unique_ranges |-> <<>>,
          segments |-> IF text = <<>> THEN <<>> ELSE <<Segment("text", text)>>]
    ELSE LET pattern_matches == finditer_pattern(pattern_regex, text, 0)
             context_matches == context_matches_of(context_words, text, 1)
             highlighted_ranges ==
                 highlighted_ranges_of(text, pattern_matches, context_matches,
                                       proximity_chars)
             sorted        == SortRanges(highlighted_ranges, Len(highlighted_ranges), TRUE)
             unique_ranges == SortRanges(unique_ranges_of(sorted, Len(sorted)),
                                         Len(unique_ranges_of(sorted, Len(sorted))), FALSE)
         IN  [highlighted_ranges |-> highlighted_ranges,
              unique_ranges      |-> unique_ranges,
              segments           |-> build_segments(text, unique_ranges, 1, 0)]

(***************************************************************************)
(* State                                                                   *)
(***************************************************************************)
VARIABLES
    config,     \* the loaded configuration, fixed for the run
    doc,        \* the document of the index
    op,         \* the operation that ran last and its mode flags
    payload,    \* the update payload or search query that operation built
    before,     \* the document as it was when that operation started
    selected,   \* whether the operation's query selected the document
    hl,         \* the result of the last highlight_document_text_html call
    run,        \* one command-line run of pii_detector.py: flags, position, requests sent
    trim        \* the input and the result of the last trim_test_lines call

vars == <<config, doc, op, payload, before, selected, hl, run, trim>>

Op(name, reverse, ner_mode, proximity_chars) ==
    [name |-> name, reverse |-> reverse, ner_mode |-> ner_mode,
     proximity_chars |-> proximity_chars]

NoHighlight == [highlighted_ranges |-> <<>>, unique_ranges |-> <<>>, segments |-> <<>>]

\* proximity_chars read from the "Proximity characters:" header line, 50
\* when the line is absent
DefaultProximity == 50

ProximityInputs == {1, DefaultProximity}

\* no command-line run is in progress
NoRun ==
    [pc |-> "idle", positional |-> 0, dry_run |-> FALSE, async_mode |-> FALSE,
     monitor_mode |-> FALSE, search_mode |-> FALSE, reverse_mode |-> FALSE,
     ner_mode |-> FALSE, file |-> "ok", net |-> <<>>, status |-> 0, polls |-> 0,
     last |-> "none"]

NoTrim == [called |-> FALSE, content |-> <<>>, result |-> <<>>]

Init ==
    /\ config \in Configs
    /\ doc \in InitDocs
    /\ op = Op("none", FALSE, FALSE, 0)
    /\ payload = NoPayload
    /\ before = doc
    /\ selected = FALSE
    /\ hl = NoHighlight
    /\ run = NoRun
    /\ trim = NoTrim

\* execute_update with dry_run=False: build the payload, then the store runs
\* the script on the document if the query selects it.  main rejects --ner
\* together with --reverse.
execute_update(reverse, ner_mode) ==
    /\ ~(ner_mode /\ reverse)
    /\ LET update_payload == build_update_query(config, reverse, ner_mode)
           hit == ~update_payload.raised /\ Selects(update_payload.query, doc)
       IN  /\ payload' = update_payload
           /\ selected' = hit
           /\ doc' = IF hit THEN RunScript(update_payload.script, doc) ELSE doc
    /\ op' = Op("update", reverse, ner_mode, 0)
    /\ before' = doc
    /\ hl' = NoHighlight
    /\ UNCHANGED <<config, run, trim>>

\* execute_search with dry_run=False: the query is built with search_mode=True
execute_search(reverse, ner_mode) ==
    /\ ~(ner_mode /\ reverse)
    /\ LET query == build_complete_query(config, config.fieldName, reverse, TRUE, ner_mode)
       IN  /\ payload' = [NoPayload EXCEPT !.query = query]
           /\ selected' = Selects(query, doc)
    /\ op' = Op("search", reverse, ner_mode, 0)
    /\ before' = doc
    /\ hl' = NoHighlight
    /\ UNCHANGED <<config, doc, run, trim>>

\* search_to_html.main renders the document_text of a hit when it is not empty
render(proximity_chars) ==
    /\ doc.hasText
    /\ doc.document_text # <<>>
    /\ hl' = highlight_document_text_html(doc.document_text, config.patternRegex,
                                          config.contextWords, proximity_chars)
    /\ op' = Op("render", FALSE, FALSE, proximity_chars)
    /\ payload' = NoPayload
    /\ before' = doc
    /\ selected' = FALSE
    /\ UNCHANGED <<config, doc, run, trim>>

Next ==
    \/ \E reverse \in BOOLEAN, ner_mode \in BOOLEAN : execute_update(reverse, ner_mode)
    \/ \E reverse \in BOOLEAN, ner_mode \in BOOLEAN : execute_search(reverse, ner_mode)
    \/ \E proximity_chars \in ProximityInputs : render(proximity_chars)

Spec == Init /\ [][Next]_vars

(***************************************************************************)
(* One command-line run of pii_detector.py: main, then execute_search or   *)
(* execute_update, with the requests it sends to Elasticsearch             *)
(***************************************************************************)
MaxPolls == 2

\* what the file named on the command line is: a valid configuration, no
\* file, unparsable YAML, a mapping without one of the required keys, or one
\* whose patternRegex is a list
ConfigFiles ==
    {"ok", "missing", "bad_yaml", "no_fieldName", "no_patternRegex", "list_patternRegex"}

\* the configurations of the runs: the checksum name varies
RunConfigs ==
    {c \in Configs : c.fieldName = "HasTFN" /\ c.patternRegex = PatDigit
                     /\ c.contextWords = <<WordS>>}

Runs ==
    [pc : {"main"}, positional : {1, 2, 3}, dry_run : BOOLEAN, async_mode : BOOLEAN,
     monitor_mode : BOOLEAN, search_mode : BOOLEAN, reverse_mode : BOOLEAN,
     ner_mode : BOOLEAN, file : ConfigFiles, net : {<<>>}, status : {0}, polls : {0},
     last : {"none"}]

\* lines 575-627: after the flags are removed exactly <index> <config.yml>
\* must remain
usage_error(r) == r.positional # 2

\* lines 632-647
incompatible_flags(r) ==
    \/ r.dry_run /\ (r.async_mode \/ r.monitor_mode)
    \/ r.search_mode /\ (r.async_mode \/ r.monitor_mode)
    \/ r.async_mode /\ r.monitor_mode
    \/ r.ner_mode /\ r.reverse_mode

config_rejected_AcceptsList(r) == r.file \notin {"ok", "list_patternRegex"}

\* lines 649-662: load_config exits on a missing or unparsable file, main on
\* a missing required key and on a list patternRegex
config_rejected(r) == r.file # "ok"

search_ensures_mapping_IgnoresDryRun(r) == r.ner_mode

\* line 357
search_ensures_mapping(r) == ~r.dry_run /\ r.ner_mode

\* line 511
update_validates_mapping(r) == ~r.dry_run

Exit(r, status) == [r EXCEPT !.pc = "exit", !.status = status]

Sent(r, requests) == [r EXCEPT !.net = r.net \o requests]

InitRun ==
    /\ config \in RunConfigs
    /\ doc \in {d \in InitDocs : ~d.hasText}
    /\ op = Op("none", FALSE, FALSE, 0)
    /\ payload = NoPayload
    /\ before = doc
    /\ selected = FALSE
    /\ hl = NoHighlight
    /\ run \in Runs
    /\ trim = NoTrim

\* main, lines 575-678: every check exits with status 1; otherwise the run
\* enters execute_search or execute_update
main ==
    /\ run.pc = "main"
    /\ run' = IF usage_error(run) \/ incompatible_flags(run) \/ config_rejected(run)
              THEN Exit(run, 1)
              ELSE IF run.search_mode
                   THEN [run EXCEPT !.pc = IF search_ensures_mapping(run)
                                           THEN "ensure_field_mapping" ELSE "build"]
                   ELSE [run EXCEPT !.pc = IF update_validates_mapping(run)
                                           THEN "validate_keyword_mapping" ELSE "build"]
    /\ UNCHANGED <<config, doc, op, payload, before, selected, hl, trim>>

\* validate_keyword_mapping, lines 446-492, and its caller, lines 512-527:
\* one GET of the mapping; anything but a keyword subfield ends the run
validate_keyword_mapping(response) ==
    /\ run.pc = "validate_keyword_mapping"
    /\ run' = IF response = "keyword"
              THEN [Sent(run, <<"GET _mapping">>) EXCEPT !.pc = "ensure_field_mapping"]
              ELSE Exit(Sent(run, <<"GET _mapping">>), 1)
    /\ UNCHANGED <<config, doc, op, payload, before, selected, hl, trim>>

\* ensure_field_mapping, lines 381-444: one GET of the mapping, then a PUT
\* unless the field is mapped as expected or the GET raised
ensure_field_mapping(response) ==
    /\ run.pc = "ensure_field_mapping"
    /\ run' = [Sent(run, IF response = "unmapped"
                         THEN <<"GET _mapping", "PUT _mapping">>
                         ELSE <<"GET _mapping">>)
               EXCEPT !.pc = "build"]
    /\ UNCHANGED <<config, doc, op, payload, before, selected, hl, trim>>

\* lines 360-367 and 531-536: the query or the payload is built; building
\* the payload raises when the checksum has no file; a dry run prints it
\* and returns
build ==
    /\ run.pc = "build"
    /\ LET built == IF run.search_mode
                    THEN [NoPayload EXCEPT !.query =
                             build_complete_query(config, config.fieldName,
                                                  run.reverse_mode, TRUE, run.ner_mode)]
                    ELSE build_update_query(config, run.reverse_mode, run.ner_mode)
       IN  /\ payload' = built
           /\ run' = IF built.raised
                     THEN [run EXCEPT !.pc = "raised", !.status = 1]
                     ELSE [run EXCEPT !.pc = IF run.dry_run THEN "done" ELSE "post"]
    /\ UNCHANGED <<config, doc, op, before, selected, hl, trim>>

\* lines 369-379 and 538-571: the request is posted; a RequestException
\* exits with status 1; a monitored run that got a task id polls the task
post(response) ==
    /\ run.pc = "post"
    /\ LET sent == Sent(run, IF run.search_mode THEN <<"POST _search">>
                                                 ELSE <<"POST _update_by_query">>)
       IN  run' = IF response = "error"
                  THEN Exit(sent, 1)
                  ELSE IF run.monitor_mode /\ response = "task"
                       THEN [sent EXCEPT !.pc = "monitor_task"]
                       ELSE [sent EXCEPT !.pc = "done"]
    /\ UNCHANGED <<config, doc, op, payload, before, selected, hl, trim>>

\* monitor_task without the break of lines 327-330
monitor_task_NoBreakOnStatus(response) ==
    /\ run.pc = "monitor_task"
    /\ response \in {"running", "not_200"} => run.polls < MaxPolls
    /\ run' = [Sent(run, <<"GET _tasks">>)
               EXCEPT !.pc = IF response \in {"running", "not_200"}
                             THEN "monitor_task" ELSE "done",
                      !.polls = IF response \in {"running", "not_200"}
                                THEN run.polls + 1 ELSE run.polls,
                      !.last = response]
    /\ UNCHANGED <<config, doc, op, payload, before, selected, hl, trim>>

\* monitor_task, lines 287-340: poll the task until it is completed, the
\* status is not 200 or the request raises; last is the answer to the last
\* poll, polls the number of polls answered 200 without the completed flag
monitor_task(response) ==
    /\ run.pc = "monitor_task"
    /\ response = "running" => run.polls < MaxPolls
    /\ run' = [Sent(run, <<"GET _tasks">>)
               EXCEPT !.pc = IF response = "running" THEN "monitor_task" ELSE "done",
                      !.polls = IF response = "running" THEN run.polls + 1 ELSE run.polls,
                      !.last = response]
    /\ UNCHANGED <<config, doc, op, payload, before, selected, hl, trim>>

NextRun ==
    \/ main
    \/ \E response \in {"keyword", "no_keyword", "error"} : validate_keyword_mapping(response)
    \/ \E response \in {"mapped", "unmapped", "error"} : ensure_field_mapping(response)
    \/ build
    \/ \E response \in {"task", "no_task", "not_200", "error"} : post(response)
    \/ \E response \in {"completed", "running", "not_200", "error"} : monitor_task(response)

SpecRun == InitRun /\ [][NextRun]_vars

\* the loop of monitor_task polls again after every sleep, and the store
\* eventually answers a poll with the completed flag
SpecMonitor == SpecRun /\ WF_vars(monitor_task("completed"))

(***************************************************************************)
(* search_to_html.py rendering the hits of one search, for patterns that   *)
(* match the empty string or do not compile and for context words that are *)
(* not regular expressions                                                 *)
(***************************************************************************)
\* [0-9]? matches the empty string wherever no digit stands
PatOptDigit == <<Atom("digit", TRUE)>>

\* [0-9 raises re.error
PatInvalid == <<Atom("unterminated", FALSE)>>

WordParen == <<"(">>

RenderAlphabet == Alphabet \cup {"(", "<"}

RenderTexts == UNION {[1..n -> RenderAlphabet] : n \in 1..MaxLen}

RenderConfigs ==
    [fieldName    : {"HasTFN"},
     patternRegex : {PatDigit, PatOptDigit, PatInvalid, <<>>},
     contextWords : ContextWordLists \cup {<<WordParen>>},
     checksum     : {""}]

InitRender ==
    /\ config \in RenderConfigs
    /\ doc \in {[hasText |-> TRUE, document_text |-> t, filename |-> "f",
                 PII |-> NullBucket, named_entities |-> NullBucket] : t \in RenderTexts}
    /\ op = Op("none", FALSE, FALSE, 0)
    /\ payload = NoPayload
    /\ before = doc
    /\ selected = FALSE
    /\ hl = NoHighlight
    /\ run = NoRun
    /\ trim = NoTrim

NextRender == \E proximity_chars \in ProximityInputs : render(proximity_chars)

SpecRender == InitRender /\ [][NextRender]_vars

(***************************************************************************)
(* pii_detector.py: trim_test_lines on the content of a checksum file      *)
(***************************************************************************)
MaxContent == 5

\* the characters of a checksum file: a line break, the text of the start
\* marker ("S"), the text of the end marker ("E"), any other text ("x")
ContentAlphabet == {"\n", "S", "E", "x"}

start_marker == "S"

end_marker == "E"

Contents == UNION {[1..n -> ContentAlphabet] : n \in 0..MaxContent}

\* str.split('\n')
RECURSIVE split_lines(_)
split_lines(str) ==
    IF \A j \in 1..Len(str) : str[j] # "\n"
    THEN <<str>>
    ELSE LET i == CHOOSE i \in 1..Len(str) :
                      str[i] = "\n" /\ \A j \in 1..(i - 1) : str[j] # "\n"
         IN  <<SubSeq(str, 1, i - 1)>> \o split_lines(SubSeq(str, i + 1, Len(str)))

\* '\n'.join(lines)
RECURSIVE join_lines(_)
join_lines(lines) ==
    IF lines = <<>> THEN <<>>
    ELSE IF Len(lines) = 1 THEN lines[1]
    ELSE lines[1] \o <<"\n">> \o join_lines(Tail(lines))

\* marker in line
InLine(marker, line) == \E j \in 1..Len(line) : line[j] = marker

\* the index i of the first line that holds the marker, NoMatch for None
first_line_with(marker, lines) ==
    IF \E k \in 1..Len(lines) : InLine(marker, lines[k])
    THEN (CHOOSE k \in 1..Len(lines) :
             InLine(marker, lines[k]) /\ \A j \in 1..(k - 1) : ~InLine(marker, lines[j])) - 1
    ELSE NoMatch

\* lines 165-197: lines[a:b] is SubSeq(lines, a + 1, b)
trim_test_lines(script_content) ==
    LET lines == split_lines(script_content)
        first_start == first_line_with(start_marker, lines)
        first_end   == first_line_with(end_marker, lines)
        start_index == first_start + 1
        end_index   == first_end
    IN  join_lines(
            IF first_start # NoMatch /\ first_end # NoMatch
            THEN SubSeq(lines, start_index + 1, end_index)
            ELSE IF first_start # NoMatch
            THEN SubSeq(lines, start_index + 1, Len(lines))
            ELSE IF first_end # NoMatch
            THEN SubSeq(lines, 1, end_index)
            ELSE lines)

InitTrim ==
    /\ config \in RunConfigs
    /\ doc \in {d \in InitDocs : ~d.hasText}
    /\ op = Op("none", FALSE, FALSE, 0)
    /\ payload = NoPayload
    /\ before = doc
    /\ selected = FALSE
    /\ hl = NoHighlight
    /\ run = NoRun
    /\ trim \in {[called |-> FALSE, content |-> c, result |-> <<>>] : c \in Contents}

\* load_checksum_algorithm, lines 138-142: the file is read and trimmed
read_and_trim ==
    /\ ~trim.called
    /\ trim' = [trim EXCEPT !.called = TRUE, !.result = trim_test_lines(trim.content)]
    /\ UNCHANGED <<config, doc, op, payload, before, selected, hl, run>>

NextTrim == read_and_trim

SpecTrim == InitTrim /\ [][NextTrim]_vars

(***************************************************************************)
(* Forward updates of configurations that give a proximity or a context    *)
(* word with a regex metacharacter                                         *)
(***************************************************************************)
\* the configuration has no proximity key
NoProximity == 0 - 1

\* the context word "s."
WordSDot == <<"s", ".">>

ScriptConfigs ==
    [fieldName    : {"HasTFN"},
     patternRegex : {PatDigit},
     contextWords : {<<WordS>>, <<WordSDot>>},
     checksum     : {"", "tfn"},
     proximity    : {NoProximity, 0, 1}]

InitScript ==
    /\ config \in ScriptConfigs
    /\ doc \in InitDocs
    /\ op = Op("none", FALSE, FALSE, 0)
    /\ payload = NoPayload
    /\ before = doc
    /\ selected = FALSE
    /\ hl = NoHighlight
    /\ run = NoRun
    /\ trim = NoTrim

NextScript == \E ner_mode \in BOOLEAN : execute_update(FALSE, ner_mode)

SpecScript == InitScript /\ [][NextScript]_vars

(***************************************************************************)
(* A forward PII update of the index followed by a reverse update of the   *)
(* same configuration                                                      *)
(***************************************************************************)
forward_run ==
    /\ op.name = "none"
    /\ execute_update(FALSE, FALSE)

reverse_run ==
    /\ op.name = "update"
    /\ ~op.reverse
    /\ execute_update(TRUE, FALSE)

NextBoth ==
    \/ forward_run
    \/ reverse_run

SpecBoth == Init /\ [][NextBoth]_vars

(***************************************************************************)
(* Vocabulary of the properties                                            *)
(***************************************************************************)
TargetPrefix == IF op.ner_mode THEN "named_entities" ELSE "PII"

\* the last operation was an update whose payload was built
Updated == op.name = "update" /\ ~payload.raised

\* the last operation was a forward update whose script ran on the document
ForwardRan == Updated /\ ~op.reverse /\ selected

\* the query has a must_not exists clause on <TargetPrefix>.<fieldName>
HasTargetAbsent(query) ==
    \E k \in 1..Len(query.must_not) :
        /\ query.must_not[k].kind = "exists"
        /\ query.must_not[k].field = <<TargetPrefix, config.fieldName>>

HasClause(clauses, kind, field) ==
    \E k \in 1..Len(clauses) : clauses[k].kind = kind /\ clauses[k].field = field

\* the value stored at <prefix>.<key> of a document that carries it
ValueAt(d, prefix, key) == BucketOf(d, prefix).map[key]

\* the composite regex of the configuration
CompositeRegex == build_checksum_regex(config.patternRegex, config.contextWords)

\* the pattern occurrences of the text, as re.finditer reports them
Occurrences == finditer_pattern(config.patternRegex, before.document_text, 0)

OccurrenceText(k) == Slice(before.document_text, Occurrences[k][1], Occurrences[k][2])

OccurrencePasses(k) == passChecksum(config.checksum, cleanMatch(OccurrenceText(k)))

(***************************************************************************)
(* C1: the predicate of a forward-mutate run has a must_not exists clause  *)
(* on <bucket>.<fieldName>, for every configuration and both targets, so a *)
(* document that already carries the target field is never selected.       *)
(***************************************************************************)
C1_ForwardExcludesLabeled ==
    (Updated /\ ~op.reverse) =>
        /\ HasTargetAbsent(payload.query)
        /\ (Carries(before, TargetPrefix, config.fieldName) => ~selected)

(***************************************************************************)
(* C2: for a non-empty context word list, the composite regex finds a      *)
(* match in the text exactly when the highlighter classifies at least one  *)
(* context occurrence as near (same proximity, 50, on both sides).         *)
(***************************************************************************)
C2_DetectorAgreesWithHighlighter ==
    (op.name = "render" /\ op.proximity_chars = GapLimit /\ config.contextWords # <<>>) =>
        (find(CompositeRegex, doc.document_text, 0).found
         <=> \E k \in 1..Len(hl.highlighted_ranges) : hl.highlighted_ranges[k].type = "near")

(***************************************************************************)
(* C3: a context occurrence [cs,ce) is classified near exactly when some   *)
(* pattern occurrence starts strictly after ce, at most proximity          *)
(* characters after it; one that overlaps or touches a pattern occurrence, *)
(* or follows them all, is far.                                            *)
(***************************************************************************)
C3_NearIffPatternStartsAfterEnd ==
    op.name = "render" =>
        \A k \in 1..Len(hl.highlighted_ranges) :
            LET r == hl.highlighted_ranges[k]
            IN  r.type # "pattern" =>
                    (r.type = "near"
                     <=> \E j \in 1..Len(hl.highlighted_ranges) :
                            /\ hl.highlighted_ranges[j].type = "pattern"
                            /\ hl.highlighted_ranges[j].start > r.end
                            /\ hl.highlighted_ranges[j].start - r.end <= op.proximity_chars)

(***************************************************************************)
(* C4: forward, checksum configured, PII target: the boolean written to    *)
(* the target field is true exactly when at least one pattern occurrence   *)
(* of the text, digit-cleaned, passes the checksum.                        *)
(***************************************************************************)
C4_PiiTrueIffSomeOccurrencePasses ==
    (ForwardRan /\ ~op.ner_mode /\ config.checksum # "") =>
        /\ Carries(doc, "PII", config.fieldName)
        /\ (ValueAt(doc, "PII", config.fieldName) = BoolVal(TRUE)
            <=> \E k \in 1..Len(Occurrences) : OccurrencePasses(k))

(***************************************************************************)
(* C5: forward, checksum configured, NER target: the value written is the  *)
(* raw text of the first pattern occurrence that passes the checksum, and  *)
(* the target field is not written when none passes.                       *)
(***************************************************************************)
C5_NerWritesFirstPassingOccurrence ==
    (ForwardRan /\ op.ner_mode /\ config.checksum # "") =>
        LET passing == {k \in 1..Len(Occurrences) : OccurrencePasses(k)}
        IN  IF passing = {}
            THEN doc.named_entities.map = before.named_entities.map
            ELSE /\ Carries(doc, "named_entities", config.fieldName)
                 /\ ValueAt(doc, "named_entities", config.fieldName)
                    = StrVal(OccurrenceText(CHOOSE k \in passing : \A j \in passing : k <= j))

\* some context alternative, a gap of at most GapLimit characters and the
\* pattern follow one another somewhere in the text (with no context words
\* group 1 is ".*", so the pattern anywhere will do)
CompositeMatchExists(text) ==
    IF config.contextWords = <<>>
    THEN \E q \in 0..Len(text) : PatEnd(config.patternRegex, text, q) # NoMatch
    ELSE \E i \in 0..Len(text), k \in 1..Len(config.contextWords), g \in 0..GapLimit :
            /\ RegexWordAt(config.contextWords[k], text, i)
            /\ i + Len(config.contextWords[k]) + g <= Len(text)
            /\ PatEnd(config.patternRegex, text, i + Len(config.contextWords[k]) + g)
               # NoMatch

\* what the plain (no checksum) forward script leaves in the document, apart
\* from the case of an NER run that finds no match
PlainScriptWrites ==
    LET m == find(CompositeRegex, before.document_text, 0)
    IN  IF ~op.ner_mode
        THEN /\ Carries(doc, "PII", config.fieldName)
             /\ ValueAt(doc, "PII", config.fieldName)
                = BoolVal(CompositeMatchExists(before.document_text))
        ELSE m.found =>
                /\ CompositeMatchExists(before.document_text)
                /\ Carries(doc, "named_entities", config.fieldName)
                /\ ValueAt(doc, "named_entities", config.fieldName)
                   = StrVal(Slice(before.document_text, m.g2start, m.g2end))

NerFoundNothing ==
    op.ner_mode /\ ~find(CompositeRegex, before.document_text, 0).found

(***************************************************************************)
(* C6 as stated: forward, no checksum: PII always writes the target field, *)
(* true if the composite regex matched and false otherwise; NER writes     *)
(* group 2 of the first match and, when there is no match, writes nothing  *)
(* to the document.                                                        *)
(***************************************************************************)
C6_PlainScriptWritesNothingOnNoMatch ==
    (ForwardRan /\ config.checksum = "") =>
        /\ PlainScriptWrites
        /\ (NerFoundNothing => doc = before)

(***************************************************************************)
(* C6 amended: as above, but an NER run that finds no match writes no key: *)
(* every key and value of the bucket and everything outside the bucket are *)
(* as before, and the only change it can make is to create the empty       *)
(* bucket when the bucket was null.                                        *)
(***************************************************************************)
C6_PlainScriptWritesNoKeyOnNoMatch ==
    (ForwardRan /\ config.checksum = "") =>
        /\ PlainScriptWrites
        /\ (NerFoundNothing =>
                /\ ~doc.named_entities.isNull
                /\ doc.named_entities.map = before.named_entities.map
                /\ [doc EXCEPT !.named_entities = before.named_entities] = before)

C6_Witness ==
    /\ ForwardRan /\ config.checksum = ""
    /\ NerFoundNothing
    /\ before.named_entities.isNull
    /\ ~doc.named_entities.isNull
    /\ ~Carries(doc, "named_entities", config.fieldName)

(***************************************************************************)
(* C7: every predicate requires document_text to exist; the forward        *)
(* predicate requires the pattern regexp to match and the reverse          *)
(* predicate requires it not to match, so a document selected in one       *)
(* direction is selected by no predicate of the other direction.           *)
(***************************************************************************)
C7_ForwardReverseDisjoint ==
    (op.name \in {"update", "search"} /\ ~payload.raised) =>
        /\ HasClause(payload.query.must, "exists", <<"document_text">>)
        /\ (IF op.reverse
            THEN /\ HasClause(payload.query.must_not, "regexp", <<"document_text", "keyword">>)
                 /\ ~HasClause(payload.query.must, "regexp", <<"document_text", "keyword">>)
            ELSE /\ HasClause(payload.query.must, "regexp", <<"document_text", "keyword">>)
                 /\ ~HasClause(payload.query.must_not, "regexp", <<"document_text", "keyword">>))
        /\ (selected =>
                /\ before.hasText
                /\ \A search_mode \in BOOLEAN, ner_mode \in BOOLEAN :
                      ~Selects(build_complete_query(config, config.fieldName, ~op.reverse,
                                                    search_mode, ner_mode), before))

C7_Witness ==
    /\ Updated /\ op.reverse /\ selected
    /\ config.contextWords # <<>>

(***************************************************************************)
(* C8: the target-field-must-be-absent condition is in the predicate       *)
(* exactly when the action is mutate; the search predicate never tests the *)
(* target field, so a labeled document is selected by search whenever its  *)
(* unlabeled copy is.                                                      *)
(***************************************************************************)
C8_AbsenceConditionIffMutate ==
    (op.name \in {"update", "search"} /\ ~payload.raised) =>
        /\ (HasTargetAbsent(payload.query) <=> op.name = "update")
        /\ (op.name = "search" =>
                /\ \A k \in 1..Len(payload.query.must_not) :
                       payload.query.must_not[k].kind # "exists"
                /\ (selected
                    <=> Selects(payload.query,
                                [before EXCEPT !.PII = NullBucket,
                                               !.named_entities = NullBucket])))

(***************************************************************************)
(* C9: in reverse direction build_update_query succeeds and returns the    *)
(* same payload whatever checksum the configuration names, even one with   *)
(* no algorithm file; its script evaluates no regex and every selected     *)
(* document gets the constant false in the target field.                   *)
(***************************************************************************)
C9_ReverseWritesFalseWithoutChecksum ==
    (op.name = "update" /\ op.reverse) =>
        /\ ~payload.raised
        /\ payload.script.kind = "reverse"
        /\ payload.script.regex_pattern = NoRegex
        /\ payload.script.checksum_script = ""
        /\ \A cs \in ChecksumNames :
              build_update_query([config EXCEPT !.checksum = cs], TRUE, op.ner_mode) = payload
        /\ \A cs \in ChecksumNames :
              LET ner_payload == build_update_query([config EXCEPT !.checksum = cs], TRUE, TRUE)
              IN  /\ ~ner_payload.raised
                  /\ ner_payload.script.kind = "reverse"
                  /\ ner_payload = build_update_query(config, TRUE, TRUE)
        /\ (selected =>
                /\ Carries(doc, TargetPrefix, config.fieldName)
                /\ ValueAt(doc, TargetPrefix, config.fieldName) = BoolVal(FALSE))

C9_Witness ==
    /\ op.name = "update" /\ op.reverse /\ selected
    /\ config.checksum = "nofile"
    /\ ValueAt(doc, "PII", config.fieldName) = BoolVal(FALSE)

\* new is old with the bucket <prefix> present, its old keys unchanged and at
\* most the target key added or rewritten; nothing else differs
MergedIntoBucket(old, new, prefix) ==
    /\ ~BucketOf(new, prefix).isNull
    /\ (DOMAIN BucketOf(new, prefix).map)
          \subseteq ((DOMAIN BucketOf(old, prefix).map) \cup {config.fieldName})
    /\ \A key \in (DOMAIN BucketOf(old, prefix).map) \ {config.fieldName} :
           /\ key \in DOMAIN BucketOf(new, prefix).map
           /\ BucketOf(new, prefix).map[key] = BucketOf(old, prefix).map[key]
    /\ (IF prefix = "named_entities"
        THEN [new EXCEPT !.named_entities = old.named_entities]
        ELSE [new EXCEPT !.PII = old.PII]) = old

(***************************************************************************)
(* C10: a mutation script creates the bucket only when it is null and puts *)
(* only the target key: the sibling keys of the bucket keep their values,  *)
(* no other key appears, and everything outside the bucket is unchanged.   *)
(* This holds of the script every update ran, and of the reverse script    *)
(* for the NER target, which main never runs, applied to the document.     *)
(***************************************************************************)
C10_ScriptMergesIntoBucket ==
    /\ (Updated /\ selected) => MergedIntoBucket(before, doc, TargetPrefix)
    /\ doc.hasText =>
           MergedIntoBucket(doc, RunScript(build_update_query(config, TRUE, TRUE).script, doc),
                            "named_entities")

C10_Witness ==
    /\ Updated /\ selected
    /\ config.fieldName # ""
    /\ Carries(before, TargetPrefix, Sibling)
    /\ Carries(doc, TargetPrefix, Sibling)
    /\ Carries(doc, TargetPrefix, config.fieldName)

(***************************************************************************)
(* Vocabulary of the command-line run                                      *)
(***************************************************************************)
RunStarted == run.pc \notin {"idle", "main"}

\* main let the run through to execute_search or execute_update
Dispatched == RunStarted /\ ~(run.pc = "exit" /\ run.net = <<>> /\ payload = NoPayload)

\* the configuration names a checksum algorithm that has no file
MissingChecksum == config.checksum # "" /\ config.checksum \notin ChecksumLibrary

\* the configuration errors and flag combinations the run must refuse
ConfigurationError ==
    \/ run.file \in {"no_fieldName", "no_patternRegex", "list_patternRegex"}
    \/ (run.dry_run \/ run.search_mode) /\ (run.async_mode \/ run.monitor_mode)
    \/ run.async_mode /\ run.monitor_mode
    \/ run.ner_mode /\ run.reverse_mode

(***************************************************************************)
(* C11: a forward-mutate run whose configuration names a checksum          *)
(* algorithm with no file aborts before any network request: it sends no   *)
(* mapping GET or PUT and no update_by_query POST, and never completes.    *)
(***************************************************************************)
C11_MissingChecksumAbortsBeforeNetwork ==
    (Dispatched /\ ~run.search_mode /\ ~run.reverse_mode /\ MissingChecksum) =>
        /\ run.net = <<>>
        /\ run.pc \notin {"post", "monitor_task", "done"}

(***************************************************************************)
(* C12: when a required field is missing, patternRegex is a list or the    *)
(* flags are incompatible, main exits with status 1 without building a     *)
(* query and without sending any network request.                          *)
(***************************************************************************)
C12_ConfigurationErrorIsFatalFirst ==
    (RunStarted /\ ConfigurationError) =>
        /\ run.pc = "exit"
        /\ run.status = 1
        /\ run.net = <<>>
        /\ payload = NoPayload

C12_Witness ==
    /\ run.pc = "exit"
    /\ run.positional = 2
    /\ run.file = "list_patternRegex"
    /\ ~run.dry_run /\ ~run.async_mode /\ ~run.monitor_mode /\ ~run.ner_mode
    /\ run.net = <<>>

(***************************************************************************)
(* C19: with --dry-run a search or an update only builds and prints the    *)
(* query: no network request is sent on any path, for every combination of *)
(* reverse and NER.                                                        *)
(***************************************************************************)
C19_DryRunSendsNothing ==
    run.dry_run =>
        /\ run.net = <<>>
        /\ run.pc \notin {"validate_keyword_mapping", "ensure_field_mapping",
                          "post", "monitor_task"}
        /\ run.pc = "done" => (payload # NoPayload /\ ~payload.raised)

C19_Witness ==
    /\ run.dry_run
    /\ run.pc = "done"
    /\ run.search_mode
    /\ run.ner_mode
    /\ payload # NoPayload

(***************************************************************************)
(* Vocabulary of the rendering                                             *)
(***************************************************************************)
Rendered == op.name = "render"

\* the two spans share at least one character
ShareCharacter(a, b) == a.start < b.end /\ b.start < a.end

\* a comes before b in the order (start ascending, end descending)
ProcessedBefore(a, b) == a.start < b.start \/ (a.start = b.start /\ a.end > b.end)

SameSpan(a, b) == a.start = b.start /\ a.end = b.end

InRanges(r, ranges) == \E k \in 1..Len(ranges) : ranges[k] = r

\* the spans kept of a list of candidates, lines 76-97
ResolveOverlaps(candidates) ==
    LET sorted == SortRanges(candidates, Len(candidates), TRUE)
        kept   == unique_ranges_of(sorted, Len(sorted))
    IN  SortRanges(kept, Len(kept), FALSE)

ExampleText == [k \in 1..15 |-> "s"]

(***************************************************************************)
(* C13: overlap resolution keeps a candidate span exactly when it overlaps *)
(* no span kept before it in the order (start ascending, end descending):  *)
(* the kept spans are whole candidates, pairwise non-overlapping, every    *)
(* rejected candidate overlaps a kept one that precedes it (or has the     *)
(* same bounds), and of [5,15) and [8,12) only [5,15) is kept.             *)
(***************************************************************************)
C13_OverlapResolutionKeepsFirstLongest ==
    /\ Rendered =>
        /\ \A k \in 1..Len(hl.unique_ranges) :
               InRanges(hl.unique_ranges[k], hl.highlighted_ranges)
        /\ \A j, k \in 1..Len(hl.unique_ranges) :
               j # k => ~ShareCharacter(hl.unique_ranges[j], hl.unique_ranges[k])
        /\ \A k \in 1..Len(hl.highlighted_ranges) :
               LET c == hl.highlighted_ranges[k]
               IN  \/ InRanges(c, hl.unique_ranges)
                   \/ \E j \in 1..Len(hl.unique_ranges) :
                          LET u == hl.unique_ranges[j]
                          IN  /\ Overlap(c, u)
                              /\ ProcessedBefore(u, c) \/ SameSpan(u, c)
    /\ \A type1, type2 \in {"pattern", "near", "far"} :
           /\ ResolveOverlaps(<<Range(8, 12, type1, ExampleText),
                                Range(5, 15, type2, ExampleText)>>)
                  = <<Range(5, 15, type2, ExampleText)>>
           /\ ResolveOverlaps(<<Range(5, 15, type2, ExampleText),
                                Range(8, 12, type1, ExampleText)>>)
                  = <<Range(5, 15, type2, ExampleText)>>

\* a phrase and the shorter word at its start were both candidates and only
\* the phrase was kept
C13_Witness ==
    /\ Rendered
    /\ \E j, k \in 1..Len(hl.highlighted_ranges) :
           /\ hl.highlighted_ranges[j].start = hl.highlighted_ranges[k].start
           /\ hl.highlighted_ranges[j].end > hl.highlighted_ranges[k].end
           /\ hl.highlighted_ranges[k].end > hl.highlighted_ranges[k].start
           /\ InRanges(hl.highlighted_ranges[j], hl.unique_ranges)
           /\ ~InRanges(hl.highlighted_ranges[k], hl.unique_ranges)

\* html.unescape of the entities html.escape produces
RECURSIVE html_unescape(_)
html_unescape(str) ==
    IF str = <<>> THEN <<>>
    ELSE LET entities == {c \in {"&", "<", ">", "\"", "'"} :
                             /\ Len(EscapeChar(c)) <= Len(str)
                             /\ SubSeq(str, 1, Len(EscapeChar(c))) = EscapeChar(c)}
         IN  IF entities = {}
             THEN <<str[1]>> \o html_unescape(Tail(str))
             ELSE LET c == CHOOSE c \in entities : TRUE
                  IN  <<c>> \o html_unescape(SubSeq(str, Len(EscapeChar(c)) + 1, Len(str)))

\* the text of the segments, in order, without the span markup
RECURSIVE StrippedText(_, _)
StrippedText(segments, k) ==
    IF k > Len(segments) THEN <<>>
    ELSE segments[k].text \o StrippedText(segments, k + 1)

(***************************************************************************)
(* C14: for every text and every set of pattern and context occurrences,   *)
(* zero-length pattern matches and occurrences sharing a start included,   *)
(* the emitted segments without their markup concatenate to exactly the    *)
(* original text.                                                          *)
(***************************************************************************)
C14_SegmentsReconstructText ==
    Rendered => html_unescape(StrippedText(hl.segments, 1)) = doc.document_text

\* the context word is not a regular expression
NotRegex(word) == \E j \in 1..Len(word) : word[j] = "("

UnhighlightedWhole ==
    /\ hl.unique_ranges = <<>>
    /\ hl.segments = <<Segment("text", doc.document_text)>>

(***************************************************************************)
(* C15 (as claimed): when the pattern is empty or does not compile, or a   *)
(* context word is not a valid regex, the whole input text is returned     *)
(* with no highlight span.                                                 *)
(***************************************************************************)
C15_BadExpressionFallsBack ==
    (Rendered /\ (\/ config.patternRegex = <<>>
                  \/ ~compiles(config.patternRegex)
                  \/ \E k \in 1..Len(config.contextWords) : NotRegex(config.contextWords[k])))
        => UnhighlightedWhole

(***************************************************************************)
(* C15 (amended): when the pattern is empty or does not compile the whole  *)
(* input text is returned with no highlight span; a context word is always *)
(* escaped, so one that is not a valid regex never fails: with a pattern   *)
(* that compiles, every pattern occurrence and every occurrence of the     *)
(* word as literal text between word boundaries is a highlight candidate.  *)
(***************************************************************************)
C15_BadPatternFallsBackWordsAreLiteral ==
    Rendered =>
        IF config.patternRegex = <<>> \/ ~compiles(config.patternRegex)
        THEN UnhighlightedWhole
        ELSE LET text == doc.document_text
                 pattern_matches == finditer_pattern(config.patternRegex, text, 0)
             IN  /\ \A k \in 1..Len(pattern_matches) :
                        InRanges(Range(pattern_matches[k][1], pattern_matches[k][2],
                                       "pattern", text), hl.highlighted_ranges)
                 /\ \A k \in 1..Len(config.contextWords), i \in 0..Len(text) :
                        LET word == config.contextWords[k]
                        IN  (/\ NotRegex(word)
                             /\ LiteralAt(word, text, i)
                             /\ WordBoundary(text, i)
                             /\ WordBoundary(text, i + Len(word)))
                            => \E type \in {"near", "far"} :
                                   InRanges(Range(i, i + Len(word), type, text),
                                            hl.highlighted_ranges)

\* a text in which a context word occurs was rendered with a pattern that
\* does not compile
C15_Witness ==
    /\ Rendered
    /\ ~compiles(config.patternRegex)
    /\ context_matches_of(config.contextWords, doc.document_text, 1) # <<>>
    /\ UnhighlightedWhole

(***************************************************************************)
(* Vocabulary of the boundary trim                                         *)
(***************************************************************************)
ContentLines == split_lines(trim.content)

ResultLines == split_lines(trim.result)

HasMarker(marker) == \E k \in 1..Len(ContentLines) : InLine(marker, ContentLines[k])

\* the position of the first line of the content that holds the marker
MarkerLine(marker) == first_line_with(marker, ContentLines) + 1

(***************************************************************************)
(* C16: with both markers the result is exactly the lines strictly between *)
(* the start-marker line and the end-marker line; with only the start      *)
(* marker the lines after it; with only the end marker the lines before    *)
(* it; with neither the content unchanged; and in every case no marker     *)
(* line remains in the result.                                             *)
(***************************************************************************)
C16_BoundaryTrimRemovesMarkers ==
    trim.called =>
        /\ (HasMarker(start_marker) /\ HasMarker(end_marker)) =>
               trim.result = join_lines(SubSeq(ContentLines, MarkerLine(start_marker) + 1,
                                               MarkerLine(end_marker) - 1))
        /\ (HasMarker(start_marker) /\ ~HasMarker(end_marker)) =>
               trim.result = join_lines(SubSeq(ContentLines, MarkerLine(start_marker) + 1,
                                               Len(ContentLines)))
        /\ (~HasMarker(start_marker) /\ HasMarker(end_marker)) =>
               trim.result = join_lines(SubSeq(ContentLines, 1, MarkerLine(end_marker) - 1))
        /\ (~HasMarker(start_marker) /\ ~HasMarker(end_marker)) =>
               trim.result = trim.content
        /\ \A k \in 1..Len(ResultLines) :
               ~InLine(start_marker, ResultLines[k]) /\ ~InLine(end_marker, ResultLines[k])

(***************************************************************************)
(* Vocabulary of the composite regex of a forward update                   *)
(***************************************************************************)
\* the last operation built a forward payload whose script holds the
\* composite regex
BuiltComposite == Updated /\ ~op.reverse /\ payload.script.regex_pattern # NoRegex

\* the proximity the configuration asks for
ConfiguredProximity ==
    IF config.proximity = NoProximity THEN DefaultProximity ELSE config.proximity

\* the pattern occurs at most maxGap characters after offset e
PatternWithin(e, maxGap) ==
    \E q \in e..Min(Len(before.document_text), e + maxGap) :
        PatEnd(config.patternRegex, before.document_text, q) # NoMatch

\* the plain PII script ran on the document
PlainPiiRan == ForwardRan /\ payload.script.kind = "plain_pii"

(***************************************************************************)
(* C17: the maximum gap of the composite regex of the mutation script is   *)
(* the configuration's proximity, 50 when it gives none: the script finds  *)
(* a match exactly when a pattern occurrence begins at most that many      *)
(* characters after a context word.                                        *)
(***************************************************************************)
C17_GapIsConfiguredProximity ==
    /\ BuiltComposite => payload.script.regex_pattern.gap = ConfiguredProximity
    /\ PlainPiiRan =>
           ValueAt(doc, "PII", config.fieldName)
               = BoolVal(\E k \in 1..Len(config.contextWords),
                            i \in 0..Len(before.document_text) :
                            /\ RegexWordAt(config.contextWords[k], before.document_text, i)
                            /\ PatternWithin(i + Len(config.contextWords[k]),
                                             ConfiguredProximity))

(***************************************************************************)
(* C18: each context word of the composite regex matches only its literal  *)
(* text: the script finds a match exactly when one of the words occurs     *)
(* literally, followed within the gap by a pattern occurrence, and no     *)
(* alternative of the context group holds an unescaped wildcard.           *)
(***************************************************************************)
C18_ContextWordsMatchLiterally ==
    /\ BuiltComposite =>
           \A k \in 1..Len(payload.script.regex_pattern.context) :
               \A j \in 1..Len(payload.script.regex_pattern.context[k]) :
                   payload.script.regex_pattern.context[k][j] # "."
    /\ PlainPiiRan =>
           ValueAt(doc, "PII", config.fieldName)
               = BoolVal(\E k \in 1..Len(config.contextWords),
                            i \in 0..Len(before.document_text) :
                            /\ LiteralAt(config.contextWords[k], before.document_text, i)
                            /\ PatternWithin(i + Len(config.contextWords[k]),
                                             payload.script.regex_pattern.gap))

(***************************************************************************)
(* C20: a forward-mutate run converges in one pass: every document that    *)
(* the forward predicate selects and the script processes carries the      *)
(* target field afterwards, for PII and NER, with and without checksum,    *)
(* so the same predicate does not select it a second time.                 *)
(***************************************************************************)
C20_ForwardRunConvergesInOnePass ==
    ForwardRan =>
        /\ Carries(doc, TargetPrefix, config.fieldName)
        /\ ~Selects(payload.query, doc)

\* the reverse run that followed a forward run has been applied
BothRan ==
    /\ op.name = "update"
    /\ op.reverse
    /\ ~build_update_query(config, FALSE, FALSE).raised

(***************************************************************************)
(* C21: after a forward PII update followed by a reverse update of the     *)
(* same configuration, every document that has a document_text carries     *)
(* the target field, also when its text holds neither the pattern nor a    *)
(* context word.                                                           *)
(***************************************************************************)
C21_ForwardAndReverseLabelEveryDocument ==
    (BothRan /\ doc.hasText) => Carries(doc, "PII", config.fieldName)

\* the number of task polls in the request trace
TaskPolls == Cardinality({k \in 1..Len(run.net) : run.net[k] = "GET _tasks"})

\* the answers that end the monitoring
EndsMonitoring(response) == response \in {"completed", "not_200", "error"}

MonitorSafe ==
    /\ run.last = "running" => run.pc = "monitor_task"
    /\ EndsMonitoring(run.last) => (run.pc = "done" /\ TaskPolls = run.polls + 1)
    /\ run.last \in {"none", "running"} => TaskPolls = run.polls

\* no task poll is sent after the answer that ended the monitoring
NoPollAfterEnd ==
    EndsMonitoring(run.last) => (run'.net = run.net /\ run'.last = run.last)

(***************************************************************************)
(* C22: monitor_task polls the task again after every answer that is 200  *)
(* without the completed flag, stops at the first answer that is           *)
(* completed, not 200 or a connection error and sends no poll after it;    *)
(* when the store eventually answers completed, the monitoring ends.       *)
(***************************************************************************)
C22_MonitorPollsUntilEnd ==
    /\ []MonitorSafe
    /\ [][NoPollAfterEnd]_vars
    /\ (run.pc = "monitor_task") ~> (run.pc = "done")

\* the task was polled while it was running and the monitoring ended at the
\* answer that carried the completed flag
C22_Witness ==
    /\ run.pc = "done"
    /\ run.last = "completed"
    /\ run.polls >= 1
    /\ TaskPolls = run.polls + 1

====
